---- MODULE Spec2Model ----
(***************************************************************************)
(* Model of the netops-mcp request-handling middleware:                    *)
(*   AuthenticationMiddleware (middleware/auth.py),                        *)
(*   RateLimiter / RateLimitMiddleware (middleware/rate_limiter.py),       *)
(*   MetricsCollector / MetricsMiddleware (middleware/metrics.py).         *)
(* Requests are handled concurrently; a step of a dispatch ends where      *)
(* another request or thread can run: at `await call_next(request)` and    *)
(* where a lock has been released before the clock or the lock is used     *)
(* again.                                                                  *)
(***************************************************************************)
EXTENDS Integers, Sequences, FiniteSets, TLC

(***************************************************************************)
(* Bounds of the model.                                                    *)
(***************************************************************************)
\* number of clock ticks in one second (time.time() is a float)
TicksPerSec == 2
\* the clock stops advancing at this tick
MaxTime == 4
\* number of requests received in one behaviour
MaxRequests == 4
\* RateLimiter(requests_per_window, window_seconds), scaled down
requests_per_window == 2
window_seconds == 2

\* number of calls of a collector operation made by the threads
MaxCalls == 3

\* the requests handled at the same time
Slots == { 1, 2 }
\* the threads calling the collector at the same time
Threads == { 1, 2, 3 }

(***************************************************************************)
(* Optional values (Python None) and strings.                              *)
(* A string that may be hashed is <<base, n>>: the text obtained from the  *)
(* text `base` by n applications of sha256(..).hexdigest().                *)
(***************************************************************************)
None == << >>
Some(x) == << x >>
Val(o) == o[1]

Empty == << "", 0 >>
K1 == << "abc123", 0 >>
K2 == << "def456", 0 >>
\* two keys whose digests begin with the same 8 hex characters
K3 == << "key29902", 0 >>
K4 == << "key140299", 0 >>
Bad == << "wrong", 0 >>

\* the keys the middleware is constructed with (plaintext only)
api_keys == << K1, K2, K3, K4 >>

\* AuthenticationMiddleware._hash_key: SHA-256 hex digest (collision free,
\* never the identity)
_hash_key(key) == << key[1], key[2] + 1 >>

\* s[:8] of a hex digest: the first 8 hex characters of the digests of the
\* model's strings; two digests can begin alike
Prefix8(digest) ==
    CASE digest = << "abc123", 1 >> -> "6ca13d52"
      [] digest = << "def456", 1 >> -> "8f61ad5c"
      [] digest = << "key29902", 1 >> -> "3b47f598"
      [] digest = << "key140299", 1 >> -> "3b47f598"
      [] digest = << "wrong", 1 >> -> "8810ad58"
      [] digest = << "", 1 >> -> "e3b0c442"
      [] digest = << "abc123", 2 >> -> "2339de14"
      [] digest = << "def456", 2 >> -> "fc717f91"
      [] digest = << "key29902", 2 >> -> "e5d37f5b"
      [] digest = << "key140299", 2 >> -> "3fd8e4e1"
      [] digest = << "wrong", 2 >> -> "c2922c81"
      [] digest = << "", 2 >> -> "cd372fb8"

\* self.hashed_keys = {self._hash_key(key) for key in api_keys}
hashed_keys == { _hash_key(api_keys[i]) : i \in 1..Len(api_keys) }

\* the keys of the credential store, as a set
StoredKeys == { api_keys[i] : i \in 1..Len(api_keys) }

\* a test `is not None` in place of truthiness
Truthy_is_not_none(o) == o # None

\* Python truthiness of an Optional[str]
Truthy(o) == o # None /\ Val(o) # Empty

KeyIn(key, seq) == \E i \in 1..Len(seq) : seq[i] = key

\* AuthenticationMiddleware._validate_api_key with every key accepted
_validate_api_key_any(api_key) == TRUE

\* AuthenticationMiddleware._validate_api_key
_validate_api_key(api_key) ==
    IF KeyIn(api_key, api_keys)
    THEN TRUE
    ELSE _hash_key(api_key) \in hashed_keys

\* _extract_api_key consulting X-API-Key before Authorization
_extract_api_key_xfirst(req) ==
    IF Truthy(req.x_api_key)
    THEN req.x_api_key
    ELSE IF req.authorization # None /\ Val(req.authorization).scheme = "Bearer"
         THEN Some(Val(req.authorization).rest)
         ELSE IF Truthy(req.api_key) THEN req.api_key ELSE None

\* _extract_api_key going on to the other headers when the Bearer token is
\* empty
_extract_api_key_skip_empty(req) ==
    IF /\ req.authorization # None
       /\ Val(req.authorization).scheme = "Bearer"
       /\ Val(req.authorization).rest # Empty
    THEN Some(Val(req.authorization).rest)
    ELSE IF Truthy(req.x_api_key)
         THEN req.x_api_key
         ELSE IF Truthy(req.api_key)
              THEN req.api_key
              ELSE None

\* AuthenticationMiddleware._extract_api_key
\* A header is None when absent; Authorization is split into the text up to
\* the first blank (scheme) and the text after it (rest).
_extract_api_key(req) ==
    IF req.authorization # None /\ Val(req.authorization).scheme = "Bearer"
    THEN Some(Val(req.authorization).rest)
    ELSE IF Truthy(req.x_api_key)
         THEN req.x_api_key
         ELSE IF Truthy(req.api_key)
              THEN req.api_key
              ELSE None


(***************************************************************************)
(* RateLimiter                                                             *)
(***************************************************************************)
\* window_seconds on the clock's scale
WindowTicks == window_seconds * TicksPerSec

\* self.requests is a defaultdict(list): a missing key reads as []
Get(m, k) == IF k \in DOMAIN m THEN m[k] ELSE << >>
Put(m, k, v) == [x \in (DOMAIN m) \cup {k} |-> IF x = k THEN v ELSE m[x]]

\* an empty dict
NoMap == [c \in {} |-> << >>]

\* Python min() of a non-empty list
Min(seq) == CHOOSE x \in { seq[i] : i \in 1..Len(seq) } :
                \A j \in 1..Len(seq) : x <= seq[j]

\* Python max() of two numbers
Max(a, b) == IF a >= b THEN a ELSE b

\* Python int() of the float n / d seconds: truncation toward zero
IntTrunc(n, d) == IF n >= 0 THEN n \div d ELSE -((-n) \div d)

Newer(seq, cutoff_time) == SelectSeq(seq, LAMBDA req_time : req_time > cutoff_time)

\* _cleanup_old_requests over one list shared by all clients
_cleanup_old_requests_shared(reqs, client_id, current_time) ==
    LET ids == DOMAIN reqs \cup { client_id }
        all == { t \in 0..current_time :
                    \E c \in ids : \E i \in 1..Len(Get(reqs, c)) : Get(reqs, c)[i] = t }
        Count(t) == Cardinality({ << c, i >> \in ids \X (1..(requests_per_window + 1)) :
                                    i <= Len(Get(reqs, c)) /\ Get(reqs, c)[i] = t })
        RECURSIVE Merge(_)
        Merge(t) == IF t > current_time THEN << >>
                    ELSE [i \in 1..Count(t) |-> t] \o Merge(t + 1)
    IN  Newer(Merge(0), current_time - WindowTicks)

\* _cleanup_old_requests keeping the timestamp on the edge of the window
_cleanup_old_requests_closed(reqs, client_id, current_time) ==
    SelectSeq(Get(reqs, client_id),
              LAMBDA req_time : req_time >= current_time - WindowTicks)

\* RateLimiter._cleanup_old_requests: the list kept for client_id
_cleanup_old_requests(reqs, client_id, current_time) ==
    Newer(Get(reqs, client_id), current_time - WindowTicks)

\* is_allowed rejecting only above the limit (> in place of >=)
is_allowed_above(reqs, client_id, current_time) ==
    LET kept == _cleanup_old_requests(reqs, client_id, current_time)
        request_count == Len(kept)
    IN  IF request_count > requests_per_window
        THEN [allowed |-> FALSE,
              remaining |-> 0,
              reset_time |-> IntTrunc(Min(kept) + WindowTicks - current_time, TicksPerSec),
              requests |-> Put(reqs, client_id, kept)]
        ELSE [allowed |-> TRUE,
              remaining |-> requests_per_window - request_count - 1,
              reset_time |-> window_seconds,
              requests |-> Put(reqs, client_id, Append(kept, current_time))]

\* RateLimiter.is_allowed, the whole critical section: the result tuple and
\* the value of self.requests after the call
is_allowed(reqs, client_id, current_time) ==
    LET kept == _cleanup_old_requests(reqs, client_id, current_time)
        request_count == Len(kept)
    IN  IF request_count >= requests_per_window
        THEN [allowed |-> FALSE,
              remaining |-> 0,
              reset_time |-> IntTrunc(Min(kept) + WindowTicks - current_time, TicksPerSec),
              requests |-> Put(reqs, client_id, kept)]
        ELSE [allowed |-> TRUE,
              remaining |-> requests_per_window - request_count - 1,
              reset_time |-> window_seconds,
              requests |-> Put(reqs, client_id, Append(kept, current_time))]

\* RateLimiter.get_stats: the dict returned and the map it leaves
get_stats(reqs, client_id, current_time) ==
    LET kept == _cleanup_old_requests(reqs, client_id, current_time)
        request_count == Len(kept)
    IN  [limit |-> requests_per_window,
         remaining |-> Max(0, requests_per_window - request_count),
         used |-> request_count,
         window_seconds |-> window_seconds,
         requests |-> Put(reqs, client_id, kept)]

\* _get_client_identifier keeping one bucket per credential and peer
_get_client_identifier_peer(req, state) ==
    IF state.api_key_hash # None
    THEN << "key", Val(state.api_key_hash),
            IF req.client # None THEN Val(req.client) ELSE "unknown" >>
    ELSE << "ip", IF req.client # None THEN Val(req.client) ELSE "unknown" >>

\* _get_client_identifier naming the bucket after the key a request presents
\* when the request is not annotated
_get_client_identifier_header(req, state) ==
    IF state.api_key_hash # None
    THEN << "key", Val(state.api_key_hash) >>
    ELSE IF Truthy(req.x_api_key)
         THEN << "key", Prefix8(_hash_key(Val(req.x_api_key))) >>
         ELSE << "ip", IF req.client # None THEN Val(req.client) ELSE "unknown" >>

\* _get_client_identifier ignoring request.state
_get_client_identifier_ip(req, state) ==
    << "ip", IF req.client # None THEN Val(req.client) ELSE "unknown" >>

\* RateLimitMiddleware._get_client_identifier
_get_client_identifier(req, state) ==
    IF state.api_key_hash # None
    THEN << "key", Val(state.api_key_hash) >>
    ELSE << "ip", IF req.client # None THEN Val(req.client) ELSE "unknown" >>

\* exempt_paths or {"/health", "/metrics"}  (an empty set is falsy)
DefaultExempt == { "/health", "/metrics" }
ExemptPaths_no_default(arg) == IF arg = None THEN {} ELSE Val(arg)
ExemptPaths(arg) == IF arg = None \/ Val(arg) = {} THEN DefaultExempt ELSE Val(arg)

(***************************************************************************)
(* MetricsCollector                                                        *)
(***************************************************************************)
\* a defaultdict(int): a missing key reads as 0
GetInt(m, k) == IF k \in DOMAIN m THEN m[k] ELSE 0

\* Python sum() of a list
RECURSIVE Sum(_)
Sum(seq) == IF seq = << >> THEN 0 ELSE Head(seq) + Sum(Tail(seq))

\* the sum of the values of a dict of numbers
RECURSIVE Total(_)
Total(m) ==
    IF DOMAIN m = {} THEN 0
    ELSE LET k == CHOOSE x \in DOMAIN m : TRUE
         IN  m[k] + Total([x \in (DOMAIN m) \ { k } |-> m[x]])

\* MetricsCollector.__init__; lock holds the thread that owns self.lock
NewCollector ==
    [lock |-> None,
     http_requests_total |-> NoMap,
     http_request_duration_seconds |-> NoMap,
     http_requests_in_progress |-> 0,
     auth_attempts_total |-> 0,
     auth_failures_total |-> 0,
     rate_limit_hits_total |-> 0,
     tool_executions_total |-> NoMap,
     tool_execution_duration |-> NoMap,
     tool_failures_total |-> NoMap]

\* MetricsCollector.record_http_request, the whole critical section
record_http_request(c, method, path, status_code, duration) ==
    LET key == << method, path, status_code >>
    IN  [c EXCEPT !.http_requests_total = Put(@, key, GetInt(@, key) + 1),
                  !.http_request_duration_seconds =
                        Put(@, key, Append(Get(@, key), duration))]

\* MetricsCollector.inc_requests_in_progress
inc_requests_in_progress(c) ==
    [c EXCEPT !.http_requests_in_progress = @ + 1]

\* dec_requests_in_progress leaving the gauge as it is
dec_requests_in_progress_skip(c) == c

\* MetricsCollector.dec_requests_in_progress
dec_requests_in_progress(c) ==
    [c EXCEPT !.http_requests_in_progress = Max(0, @ - 1)]

\* record_auth_attempt counting consecutive failures: a success clears them
record_auth_attempt_reset(c, success) ==
    [c EXCEPT !.auth_attempts_total = @ + 1,
              !.auth_failures_total = IF ~success THEN @ + 1 ELSE 0]

\* MetricsCollector.record_auth_attempt
record_auth_attempt(c, success) ==
    [c EXCEPT !.auth_attempts_total = @ + 1,
              !.auth_failures_total = IF ~success THEN @ + 1 ELSE @]

\* MetricsCollector.record_rate_limit_hit
record_rate_limit_hit(c) ==
    [c EXCEPT !.rate_limit_hits_total = @ + 1]

\* MetricsCollector.record_tool_execution
record_tool_execution(c, tool_name, duration, success) ==
    [c EXCEPT !.tool_executions_total = Put(@, tool_name, GetInt(@, tool_name) + 1),
              !.tool_execution_duration =
                  Put(@, tool_name, Append(Get(@, tool_name), duration)),
              !.tool_failures_total =
                  IF ~success THEN Put(@, tool_name, GetInt(@, tool_name) + 1) ELSE @]

\* MetricsCollector.export_prometheus: the samples of the text, one per line
\* that is not a comment, as name, label values and value
export_prometheus(c) ==
    { [name |-> "http_requests_total", labels |-> k,
       value |-> c.http_requests_total[k]] : k \in DOMAIN c.http_requests_total }
    \cup
    { [name |-> "http_request_duration_seconds_sum", labels |-> k,
       value |-> Sum(c.http_request_duration_seconds[k])] :
          k \in { x \in DOMAIN c.http_request_duration_seconds :
                     c.http_request_duration_seconds[x] # << >> } }
    \cup
    { [name |-> "http_request_duration_seconds_count", labels |-> k,
       value |-> Len(c.http_request_duration_seconds[k])] :
          k \in { x \in DOMAIN c.http_request_duration_seconds :
                     c.http_request_duration_seconds[x] # << >> } }
    \cup
    { [name |-> "http_requests_in_progress", labels |-> << >>,
       value |-> c.http_requests_in_progress],
      [name |-> "auth_attempts_total", labels |-> << >>,
       value |-> c.auth_attempts_total],
      [name |-> "auth_failures_total", labels |-> << >>,
       value |-> c.auth_failures_total],
      [name |-> "rate_limit_hits_total", labels |-> << >>,
       value |-> c.rate_limit_hits_total] }
    \cup
    { [name |-> "tool_executions_total", labels |-> << k >>,
       value |-> c.tool_executions_total[k]] : k \in DOMAIN c.tool_executions_total }
    \cup
    { [name |-> "tool_execution_duration_seconds_sum", labels |-> << k >>,
       value |-> Sum(c.tool_execution_duration[k])] :
          k \in { x \in DOMAIN c.tool_execution_duration :
                     c.tool_execution_duration[x] # << >> } }
    \cup
    { [name |-> "tool_execution_duration_seconds_count", labels |-> << k >>,
       value |-> Len(c.tool_execution_duration[k])] :
          k \in { x \in DOMAIN c.tool_execution_duration :
                     c.tool_execution_duration[x] # << >> } }
    \cup
    { [name |-> "tool_failures_total", labels |-> << k >>,
       value |-> c.tool_failures_total[k]] : k \in DOMAIN c.tool_failures_total }

\* `with self.lock` entered whoever holds the lock
LockFree_always(c) == TRUE

\* `with self.lock` can be entered
LockFree(c) == c.lock = None

\* MetricsMiddleware.dispatch counting "/metrics" as well
Counted_every(path) == TRUE

\* MetricsMiddleware.dispatch counts every path but "/metrics"
Counted(path) == path # "/metrics"

(***************************************************************************)
(* State                                                                   *)
(***************************************************************************)
VARIABLES
    stack,          \* the middleware stack around the handler, outermost first
    require_auth,   \* AuthenticationMiddleware.require_auth
    auth_exempt,    \* AuthenticationMiddleware.exempt_paths
    rate_exempt,    \* RateLimitMiddleware.exempt_paths
    now,            \* time.time(), in ticks
    requests,       \* RateLimiter.requests
    slot,           \* the requests being handled
    received,       \* number of requests received so far
    admitted,       \* history: per client id, the admitted timestamps still
                    \* inside the closed trailing window
    last_reject,    \* history: per client id, the latest evaluation when it
                    \* was a rejection
    auth_failures,  \* history: per peer, the times of the 401 and 403 responses
                    \* still inside the trailing window
    collector,      \* the MetricsCollector
    threads,        \* the threads calling the collector: position and locals
    calls,          \* history: per (method, path, status), the number of
                    \* record_http_request calls that returned
    ops,            \* history: the number of other collector operations made
    lock,           \* RateLimiter.lock: the thread that holds it
    callers,        \* the threads calling RateLimiter.is_allowed: position
                    \* and locals
    results         \* history: the results is_allowed returned, in the order
                    \* of the calls' critical sections

vars == << stack, require_auth, auth_exempt, rate_exempt, now, requests, slot,
           received, admitted, last_reject, auth_failures, collector, threads,
           calls, ops, lock, callers, results >>

\* what the middlewares keep of the rate limiter, and its history
limiter_vars == << requests, admitted, last_reject >>
\* the threads that call the collector directly, and their history
thread_vars == << threads, calls, ops >>
\* the threads that call the rate limiter directly, and their history
caller_vars == << lock, callers, results >>

config == << stack, require_auth, auth_exempt, rate_exempt >>

\* a response: who produced it, its status code and its headers
NoHeaders == [h \in {} |-> 0]
NoResponse == [by |-> "", status_code |-> 0, headers |-> NoHeaders]
NoRequest == [path |-> "", authorization |-> None, x_api_key |-> None,
              api_key |-> None, client |-> None]
\* request.state of a new request: no attribute set
NoState == [authenticated |-> None, api_key_hash |-> None]

\* A slot: the position of a request in the stack (pc), the request, its
\* request.state, the response once there is one, the local `remaining` of
\* RateLimitMiddleware.dispatch, what the rate limiter did with it
\* (eval: the client id, the time and the result of its evaluation, and the
\* client's preceding evaluation when that was a rejection), the local
\* `start_time` of MetricsMiddleware.dispatch, and the error travelling
\* outwards once the handler raised (exc).
IdleSlot == [pc |-> "idle", req |-> NoRequest, state |-> NoState,
             resp |-> NoResponse, remaining |-> None, eval |-> None,
             start_time |-> None, exc |-> None]

\* The composition of the pipeline: authentication, then rate limiting, then
\* the handler.
Pipeline == << "auth", "rate" >>

Index(layer) == CHOOSE i \in 1..Len(stack) : stack[i] = layer

\* await call_next(request): the layer that runs next
call_next(layer) ==
    IF Index(layer) < Len(stack) THEN stack[Index(layer) + 1] ELSE "handler"

\* the layers around `position`, as indices of the stack
Around(position) ==
    { i \in 1..Len(stack) : position = "handler" \/ i < Index(position) }

\* A response produced at `position` travels back through the layers that
\* called call_next: it stops at the innermost RateLimitMiddleware or
\* MetricsMiddleware around it, the layers with code after call_next.
Unwind(position) ==
    LET after == { i \in Around(position) : stack[i] \in { "rate", "metrics" } }
    IN  IF after = {} THEN "done"
        ELSE LET i == CHOOSE x \in after : \A y \in after : y <= x
             IN  IF stack[i] = "rate" THEN "ret_rate" ELSE "ret_metrics"

\* An error raised at `position` travels back through the layers that called
\* call_next: it stops at the `finally` of a MetricsMiddleware around it.
Raise(position) ==
    IF \E i \in Around(position) : stack[i] = "metrics"
    THEN "exc_metrics"
    ELSE "done"

(***************************************************************************)
(* Requests                                                                *)
(***************************************************************************)
Bearer(token) == Some([scheme |-> "Bearer", rest |-> token])
Basic(token) == Some([scheme |-> "Basic", rest |-> token])

Paths == { "/health", "/ping" }

\* the requests sent to the authentication middleware standing alone
AuthRequests ==
    [path : Paths,
     authorization : { None, Bearer(K1), Bearer(Bad), Bearer(Empty),
                       Bearer(_hash_key(K1)), Basic(K1) },
     x_api_key : { None, Some(Empty), Some(K1), Some(Bad), Some(_hash_key(K1)) },
     api_key : { None, Some(K2), Some(Bad) },
     client : { Some("1.2.3.4"), None }]

\* the requests sent to the pipeline
PipelineRequests ==
    [path : Paths,
     authorization : { None },
     x_api_key : { None, Some(K1), Some(Bad) },
     api_key : { None },
     client : { Some("1.2.3.4") }]

\* the requests sent to the pipeline by several clients: "/open" is exempt
\* from authentication only, "/tools" from nothing
BucketPaths == { "/open", "/tools" }
BucketRequests ==
    [path : BucketPaths,
     authorization : { None },
     x_api_key : { None, Some(K1), Some(K3), Some(K4) },
     api_key : { None },
     client : { Some("1.2.3.4"), None }]

\* the requests sent to the pipeline by one keyed client and one client
\* known by its address, while the clock advances
IsolationRequests ==
    { r \in BucketRequests :
        /\ r.client = Some("1.2.3.4")
        /\ \/ r.path = "/open" /\ r.x_api_key = None
           \/ r.path = "/tools" /\ r.x_api_key = Some(K1) }

(***************************************************************************)
(* Operations                                                              *)
(***************************************************************************)
\* A request arrives and enters the outermost middleware.
Receive(s, r) ==
    /\ slot[s].pc \in { "idle", "done" }
    /\ received < MaxRequests
    /\ received' = received + 1
    /\ slot' = [slot EXCEPT ![s] = [IdleSlot EXCEPT !.pc = stack[1], !.req = r]]
    /\ UNCHANGED << config, now, requests, admitted, last_reject, auth_failures,
                    collector, thread_vars, caller_vars >>

\* the peer of a request, as the rate limiter names it
Peer(req) == << "ip", IF req.client # None THEN Val(req.client) ELSE "unknown" >>

\* AuthenticationMiddleware.dispatch annotating a request it passes without
\* authentication, when the request presents a key
AuthDispatch_annotate_all(s) ==
    LET req == slot[s].req
        api_key == _extract_api_key(req)
        passed == \/ req.path \in auth_exempt
                  \/ ~require_auth
                  \/ (Truthy(api_key) /\ _validate_api_key(Val(api_key)))
    IN  /\ slot[s].pc = "auth"
        /\ slot' = [slot EXCEPT ![s] =
              IF req.path \in auth_exempt
              THEN [@ EXCEPT !.pc = call_next("auth")]
              ELSE IF ~require_auth
              THEN [@ EXCEPT !.pc = call_next("auth"),
                             !.state = IF Truthy(api_key)
                                       THEN [authenticated |-> Some(TRUE),
                                             api_key_hash |->
                                                 Some(Prefix8(_hash_key(Val(api_key))))]
                                       ELSE @]
              ELSE IF ~Truthy(api_key)
              THEN [@ EXCEPT !.pc = Unwind("auth"),
                             !.resp = [by |-> "auth", status_code |-> 401,
                                       headers |-> [h \in { "WWW-Authenticate" } |-> 0]]]
              ELSE IF ~_validate_api_key(Val(api_key))
              THEN [@ EXCEPT !.pc = Unwind("auth"),
                             !.resp = [by |-> "auth", status_code |-> 403,
                                       headers |-> NoHeaders]]
              ELSE [@ EXCEPT !.pc = call_next("auth"),
                             !.state = [authenticated |-> Some(TRUE),
                                        api_key_hash |->
                                            Some(Prefix8(_hash_key(Val(api_key))))]]]
        /\ auth_failures' = IF passed THEN auth_failures
                            ELSE Put(auth_failures, Peer(req),
                                     Append(Get(auth_failures, Peer(req)), now))
        /\ UNCHANGED << config, now, requests, received, admitted, last_reject,
                        collector, thread_vars, caller_vars >>

\* AuthenticationMiddleware.dispatch up to its return or its call_next
AuthDispatch(s) ==
    LET req == slot[s].req
        api_key == _extract_api_key(req)
        passed == \/ req.path \in auth_exempt
                  \/ ~require_auth
                  \/ (Truthy(api_key) /\ _validate_api_key(Val(api_key)))
    IN  /\ slot[s].pc = "auth"
        /\ slot' = [slot EXCEPT ![s] =
              IF req.path \in auth_exempt
              THEN [@ EXCEPT !.pc = call_next("auth")]
              ELSE IF ~require_auth
              THEN [@ EXCEPT !.pc = call_next("auth")]
              ELSE IF ~Truthy(api_key)
              THEN [@ EXCEPT !.pc = Unwind("auth"),
                             !.resp = [by |-> "auth", status_code |-> 401,
                                       headers |-> [h \in { "WWW-Authenticate" } |-> 0]]]
              ELSE IF ~_validate_api_key(Val(api_key))
              THEN [@ EXCEPT !.pc = Unwind("auth"),
                             !.resp = [by |-> "auth", status_code |-> 403,
                                       headers |-> NoHeaders]]
              ELSE [@ EXCEPT !.pc = call_next("auth"),
                             !.state = [authenticated |-> Some(TRUE),
                                        api_key_hash |->
                                            Some(Prefix8(_hash_key(Val(api_key))))]]]
        /\ auth_failures' = IF passed THEN auth_failures
                            ELSE Put(auth_failures, Peer(req),
                                     Append(Get(auth_failures, Peer(req)), now))
        /\ UNCHANGED << config, now, requests, received, admitted, last_reject,
                        collector, thread_vars, caller_vars >>

\* the headers of the 429 response with the window length as Retry-After
RejectHeaders_window(reset_time) ==
    [h \in { "X-RateLimit-Limit", "X-RateLimit-Remaining", "X-RateLimit-Reset",
             "Retry-After" } |->
        CASE h = "X-RateLimit-Limit" -> requests_per_window
          [] h = "X-RateLimit-Remaining" -> 0
          [] h = "X-RateLimit-Reset" -> IntTrunc(now, TicksPerSec) + reset_time
          [] h = "Retry-After" -> window_seconds]

\* the headers of the 429 response
RejectHeaders(reset_time) ==
    [h \in { "X-RateLimit-Limit", "X-RateLimit-Remaining", "X-RateLimit-Reset",
             "Retry-After" } |->
        CASE h = "X-RateLimit-Limit" -> requests_per_window
          [] h = "X-RateLimit-Remaining" -> 0
          [] h = "X-RateLimit-Reset" -> IntTrunc(now, TicksPerSec) + reset_time
          [] h = "Retry-After" -> reset_time]

\* RateLimitMiddleware.dispatch evaluating the identity before it looks at the
\* exempt paths
RateLimitDispatch_evaluate_first(s) ==
    LET req == slot[s].req
        client_id == _get_client_identifier(req, slot[s].state)
        r == is_allowed(requests, client_id, now)
        ev == [client_id |-> client_id, time |-> now, allowed |-> r.allowed,
               reset_time |-> r.reset_time,
               prev_reject |-> Get(last_reject, client_id)]
    IN  /\ slot[s].pc = "rate"
        /\ IF req.path \in rate_exempt
           THEN /\ slot' = [slot EXCEPT ![s].pc = call_next("rate")]
                /\ requests' = r.requests
                /\ UNCHANGED << admitted, last_reject >>
           ELSE /\ requests' = r.requests
                /\ slot' = [slot EXCEPT ![s] =
                      IF ~r.allowed
                      THEN [@ EXCEPT !.pc = "reject", !.eval = Some(ev)]
                      ELSE [@ EXCEPT !.pc = call_next("rate"),
                                     !.eval = Some(ev),
                                     !.remaining = Some(r.remaining)]]
                /\ admitted' = IF r.allowed
                               THEN Put(admitted, client_id,
                                        Append(Get(admitted, client_id), now))
                               ELSE admitted
                /\ last_reject' = Put(last_reject, client_id,
                                      IF r.allowed THEN None
                                      ELSE Some([time |-> now, retry_after |-> r.reset_time]))
        /\ UNCHANGED << config, now, received, auth_failures, collector, thread_vars, caller_vars >>

\* RateLimitMiddleware.dispatch from its path test to the return of
\* is_allowed, and on to call_next when the request is admitted
RateLimitDispatch(s) ==
    LET req == slot[s].req
        client_id == _get_client_identifier(req, slot[s].state)
        r == is_allowed(requests, client_id, now)
        ev == [client_id |-> client_id, time |-> now, allowed |-> r.allowed,
               reset_time |-> r.reset_time,
               prev_reject |-> Get(last_reject, client_id)]
    IN  /\ slot[s].pc = "rate"
        /\ IF req.path \in rate_exempt
           THEN /\ slot' = [slot EXCEPT ![s].pc = call_next("rate")]
                /\ UNCHANGED << requests, admitted, last_reject >>
           ELSE /\ requests' = r.requests
                /\ slot' = [slot EXCEPT ![s] =
                      IF ~r.allowed
                      THEN [@ EXCEPT !.pc = "reject", !.eval = Some(ev)]
                      ELSE [@ EXCEPT !.pc = call_next("rate"),
                                     !.eval = Some(ev),
                                     !.remaining = Some(r.remaining)]]
                /\ admitted' = IF r.allowed
                               THEN Put(admitted, client_id,
                                        Append(Get(admitted, client_id), now))
                               ELSE admitted
                /\ last_reject' = Put(last_reject, client_id,
                                      IF r.allowed THEN None
                                      ELSE Some([time |-> now, retry_after |-> r.reset_time]))
        /\ UNCHANGED << config, now, received, auth_failures, collector, thread_vars, caller_vars >>

\* RateLimitMiddleware.dispatch building the 429 after is_allowed returned
\* and released the lock: time.time() is read again for X-RateLimit-Reset
RateLimitReject(s) ==
    /\ slot[s].pc = "reject"
    /\ slot' = [slot EXCEPT
                   ![s].pc = Unwind("rate"),
                   ![s].resp = [by |-> "rate", status_code |-> 429,
                                headers |-> RejectHeaders(Val(slot[s].eval).reset_time)]]
    /\ UNCHANGED << config, now, requests, received, admitted, last_reject, auth_failures,
                    collector, thread_vars, caller_vars >>

\* the downstream handler answers
HandlerStatus == { 200 }
Handler(s) ==
    /\ slot[s].pc = "handler"
    /\ \E st \in HandlerStatus :
          slot' = [slot EXCEPT ![s].pc = Unwind("handler"),
                               ![s].resp = [by |-> "handler", status_code |-> st,
                                            headers |-> NoHeaders]]
    /\ UNCHANGED << config, now, requests, received, admitted, last_reject, auth_failures,
                    collector, thread_vars, caller_vars >>

\* response.headers[name] = value
SetHeaders(headers, new) ==
    [h \in (DOMAIN headers) \cup (DOMAIN new) |->
        IF h \in DOMAIN new THEN new[h] ELSE headers[h]]

\* RateLimitMiddleware.dispatch after its call_next returned
RateLimitReturn(s) ==
    /\ slot[s].pc = "ret_rate"
    /\ slot' = [slot EXCEPT ![s] =
          IF slot[s].req.path \in rate_exempt
          THEN [@ EXCEPT !.pc = Unwind("rate")]
          ELSE [@ EXCEPT !.pc = Unwind("rate"),
                         !.resp.headers = SetHeaders(@,
                            [h \in { "X-RateLimit-Limit", "X-RateLimit-Remaining",
                                     "X-RateLimit-Reset" } |->
                                CASE h = "X-RateLimit-Limit" -> requests_per_window
                                  [] h = "X-RateLimit-Remaining" -> Val(slot[s].remaining)
                                  [] h = "X-RateLimit-Reset" ->
                                        IntTrunc(now, TicksPerSec) + window_seconds])]]
    /\ UNCHANGED << config, now, requests, received, admitted, last_reject, auth_failures,
                    collector, thread_vars, caller_vars >>

\* the errors a handler raises
Errors == { "RuntimeError", "TimeoutError" }

\* the downstream handler raises
HandlerRaises(s) ==
    /\ slot[s].pc = "handler"
    /\ \E e \in Errors :
          slot' = [slot EXCEPT ![s].pc = Raise("handler"), ![s].exc = Some(e)]
    /\ UNCHANGED << config, now, limiter_vars, received, auth_failures, collector,
                    thread_vars, caller_vars >>

\* the handler made by create_metrics_endpoint: it serves the export
metrics_endpoint(s) ==
    /\ slot[s].pc = "handler"
    /\ slot[s].req.path = "/metrics"
    /\ LockFree(collector)
    /\ slot' = [slot EXCEPT ![s].pc = Unwind("handler"),
                            ![s].resp = [by |-> "handler", status_code |-> 200,
                                         headers |-> [h \in { "Content-Type" } |-> 0]]]
    /\ UNCHANGED << config, now, limiter_vars, received, auth_failures, collector,
                    thread_vars, caller_vars >>

\* request.method: every request of the model is a GET
Method(req) == "GET"

\* MetricsMiddleware.dispatch up to its call_next
MetricsDispatch(s) ==
    /\ slot[s].pc = "metrics"
    /\ IF ~Counted(slot[s].req.path)
       THEN /\ slot' = [slot EXCEPT ![s].pc = call_next("metrics")]
            /\ UNCHANGED collector
       ELSE /\ slot' = [slot EXCEPT ![s].pc = call_next("metrics"),
                                    ![s].start_time = Some(now)]
            /\ collector' = inc_requests_in_progress(collector)
    /\ UNCHANGED << config, now, limiter_vars, received, auth_failures, thread_vars, caller_vars >>

\* MetricsMiddleware.dispatch after its call_next returned a response: the
\* rest of the try block, record_http_request taking and releasing the lock;
\* a request that is not counted was returned as call_next gave it
MetricsReturn(s) ==
    /\ slot[s].pc = "ret_metrics"
    /\ IF ~Counted(slot[s].req.path)
       THEN /\ slot' = [slot EXCEPT ![s].pc = Unwind("metrics")]
            /\ UNCHANGED collector
       ELSE /\ slot' = [slot EXCEPT ![s].pc = "finally"]
            /\ collector' =
                  record_http_request(collector, Method(slot[s].req),
                                      slot[s].req.path, slot[s].resp.status_code,
                                      now - Val(slot[s].start_time))
    /\ UNCHANGED << config, now, limiter_vars, received, auth_failures, thread_vars, caller_vars >>

\* the finally clause after the try block returned the response:
\* dec_requests_in_progress takes the lock again
MetricsFinally(s) ==
    /\ slot[s].pc = "finally"
    /\ slot' = [slot EXCEPT ![s].pc = Unwind("metrics")]
    /\ collector' = dec_requests_in_progress(collector)
    /\ UNCHANGED << config, now, limiter_vars, received, auth_failures, thread_vars, caller_vars >>

\* MetricsMiddleware.dispatch turning the error of call_next into a 500
\* response that it records
MetricsRaise_respond(s) ==
    /\ slot[s].pc = "exc_metrics"
    /\ slot' = [slot EXCEPT ![s].pc = Unwind("metrics"),
                            ![s].exc = None,
                            ![s].resp = [by |-> "metrics", status_code |-> 500,
                                         headers |-> NoHeaders]]
    /\ IF ~Counted(slot[s].req.path)
       THEN UNCHANGED collector
       ELSE collector' =
               dec_requests_in_progress(
                   record_http_request(collector, Method(slot[s].req),
                                       slot[s].req.path, 500,
                                       now - Val(slot[s].start_time)))
    /\ UNCHANGED << config, now, limiter_vars, received, auth_failures, thread_vars, caller_vars >>

\* MetricsMiddleware.dispatch when its call_next raised: the finally clause,
\* then the error goes on to the caller
MetricsRaise(s) ==
    /\ slot[s].pc = "exc_metrics"
    /\ slot' = [slot EXCEPT ![s].pc = Raise("metrics")]
    /\ IF ~Counted(slot[s].req.path)
       THEN UNCHANGED collector
       ELSE collector' = dec_requests_in_progress(collector)
    /\ UNCHANGED << config, now, limiter_vars, received, auth_failures, thread_vars, caller_vars >>

\* The clock advances. The history `admitted` forgets the timestamps that
\* left the closed window [now - window, now].
Tick ==
    /\ now < MaxTime
    /\ now' = now + 1
    /\ admitted' = [c \in DOMAIN admitted |->
                       SelectSeq(admitted[c], LAMBDA t : t >= now' - WindowTicks)]
    /\ auth_failures' = [c \in DOMAIN auth_failures |->
                            Newer(auth_failures[c], now' - WindowTicks)]
    /\ UNCHANGED << config, requests, slot, received, last_reject, collector, thread_vars, caller_vars >>

(***************************************************************************)
(* Threads calling MetricsCollector.record_http_request, statement by      *)
(* statement                                                               *)
(***************************************************************************)
\* A thread: its position in record_http_request (pc), the arguments of the
\* call (key, duration) and the count it read for `+= 1`.
IdleThread == [pc |-> "idle", key |-> << >>, duration |-> 0, count |-> 0]

\* the arguments of the calls
CallKeys == { << "GET", "/ping", 200 >>, << "GET", "/ping", 429 >> }
CallDurations == { 0, 1 }

\* the calls made so far: those that returned and those under way
Started == Total(calls) + Cardinality({ t \in Threads : threads[t].pc # "idle" })

\* a thread calls record_http_request(method, path, status_code, duration)
Call(t, key, duration) ==
    /\ threads[t].pc = "idle"
    /\ Started < MaxCalls
    /\ threads' = [threads EXCEPT ![t] = [pc |-> "lock", key |-> key,
                                          duration |-> duration, count |-> 0]]
    /\ UNCHANGED << config, now, limiter_vars, slot, received, auth_failures,
                    collector, calls, ops, caller_vars >>

\* with self.lock:
Acquire(t) ==
    /\ threads[t].pc = "lock"
    /\ LockFree(collector)
    /\ collector' = [collector EXCEPT !.lock = Some(t)]
    /\ threads' = [threads EXCEPT ![t].pc = "load"]
    /\ UNCHANGED << config, now, limiter_vars, slot, received, auth_failures, calls,
                    ops, caller_vars >>

\* self.http_requests_total[key] += 1, the read: the defaultdict(int) stores
\* 0 under a key it does not have
LoadCount(t) ==
    /\ threads[t].pc = "load"
    /\ threads' = [threads EXCEPT
                      ![t].pc = "store",
                      ![t].count = GetInt(collector.http_requests_total, threads[t].key)]
    /\ collector' = [collector EXCEPT !.http_requests_total =
                         Put(@, threads[t].key, GetInt(@, threads[t].key))]
    /\ UNCHANGED << config, now, limiter_vars, slot, received, auth_failures,
                    calls, ops, caller_vars >>

\* self.http_requests_total[key] += 1, the write
StoreCount(t) ==
    /\ threads[t].pc = "store"
    /\ collector' = [collector EXCEPT !.http_requests_total =
                         Put(@, threads[t].key, threads[t].count + 1)]
    /\ threads' = [threads EXCEPT ![t].pc = "append"]
    /\ UNCHANGED << config, now, limiter_vars, slot, received, auth_failures, calls,
                    ops, caller_vars >>

\* record_http_request without its append
AppendDuration_skip(t) ==
    /\ threads[t].pc = "append"
    /\ threads' = [threads EXCEPT ![t].pc = "unlock"]
    /\ UNCHANGED << config, now, limiter_vars, slot, received, auth_failures,
                    collector, calls, ops, caller_vars >>

\* self.http_request_duration_seconds[key].append(duration)
AppendDuration(t) ==
    /\ threads[t].pc = "append"
    /\ collector' = [collector EXCEPT !.http_request_duration_seconds =
                         Put(@, threads[t].key,
                             Append(Get(@, threads[t].key), threads[t].duration))]
    /\ threads' = [threads EXCEPT ![t].pc = "unlock"]
    /\ UNCHANGED << config, now, limiter_vars, slot, received, auth_failures, calls,
                    ops, caller_vars >>

\* the end of the with block: the lock is released and the call returns
Release(t) ==
    /\ threads[t].pc = "unlock"
    /\ collector' = [collector EXCEPT !.lock = None]
    /\ threads' = [threads EXCEPT ![t] = IdleThread]
    /\ calls' = Put(calls, threads[t].key, GetInt(calls, threads[t].key) + 1)
    /\ UNCHANGED << config, now, limiter_vars, slot, received, auth_failures,
                    ops, caller_vars >>

\* The other operations of the collector, each one critical section: a
\* thread that is not inside record_http_request runs the operation `op`
\* while the lock is free.
ToolNames == { "ping" }
Operation(op) ==
    /\ LockFree(collector)
    /\ Started + ops < MaxCalls
    /\ ops' = ops + 1
    /\ collector' = op
    /\ UNCHANGED << config, now, limiter_vars, slot, received, auth_failures,
                    threads, calls, caller_vars >>

\* a thread calls inc_requests_in_progress()
IncRequestsInProgress == Operation(inc_requests_in_progress(collector))

\* a thread calls dec_requests_in_progress()
DecRequestsInProgress == Operation(dec_requests_in_progress(collector))

\* a thread calls record_auth_attempt(success)
RecordAuthAttempt(success) == Operation(record_auth_attempt(collector, success))

\* a thread calls record_rate_limit_hit()
RecordRateLimitHit == Operation(record_rate_limit_hit(collector))

\* a thread calls record_tool_execution(tool_name, duration, success)
RecordToolExecution(tool_name, duration, success) ==
    Operation(record_tool_execution(collector, tool_name, duration, success))

\* a thread calls export_prometheus(): it reads the registers under the lock
\* and writes none
ExportPrometheus == Operation(collector)

(***************************************************************************)
(* Threads calling RateLimiter.is_allowed, statement by statement          *)
(***************************************************************************)
\* A caller: its position in is_allowed (pc), the argument client_id, the
\* locals current_time and request_count, the list self.requests[client_id]
\* as it was when the lock was taken (before), and the result once computed.
IdleCaller == [pc |-> "idle", client_id |-> << >>, current_time |-> 0,
              request_count |-> 0, before |-> << >>, result |-> None]

\* the identities of the calls
ClientIds == { << "ip", "1.2.3.4" >>, << "ip", "unknown" >> }

\* what pipeline requests and collector threads own
other_vars == << config, slot, received, admitted, last_reject, auth_failures,
                collector, thread_vars >>

\* `with self.lock` of the rate limiter entered whoever holds the lock
LimiterLockFree_always(l) == TRUE

\* `with self.lock` of the rate limiter can be entered
LimiterLockFree(l) == l = None

\* a thread calls is_allowed(client_id)
IsAllowedCall(t, client_id) ==
    /\ callers[t].pc = "idle"
    /\ Len(results) + Cardinality({ u \in Threads : callers[u].pc # "idle" }) < MaxCalls
    /\ callers' = [callers EXCEPT ![t] = [IdleCaller EXCEPT !.pc = "lock",
                                                          !.client_id = client_id]]
    /\ UNCHANGED << other_vars, now, requests, lock, results >>

\* with self.lock: current_time = time.time()
IsAllowedAcquire(t) ==
    /\ callers[t].pc = "lock"
    /\ LimiterLockFree(lock)
    /\ lock' = Some(t)
    /\ callers' = [callers EXCEPT ![t].pc = "cleanup",
                                  ![t].current_time = now,
                                  ![t].before = Get(requests, callers[t].client_id)]
    /\ UNCHANGED << other_vars, now, requests, results >>

\* self._cleanup_old_requests(client_id, current_time)
IsAllowedCleanup(t) ==
    /\ callers[t].pc = "cleanup"
    /\ requests' = Put(requests, callers[t].client_id,
                       _cleanup_old_requests(requests, callers[t].client_id,
                                             callers[t].current_time))
    /\ callers' = [callers EXCEPT ![t].pc = "count"]
    /\ UNCHANGED << other_vars, now, lock, results >>

\* the rejection branch appending current_time all the same
IsAllowedCount_record(t) ==
    LET c == callers[t].client_id
        n == Len(requests[c])
    IN  /\ callers[t].pc = "count"
        /\ IF n >= requests_per_window
           THEN /\ callers' = [callers EXCEPT
                      ![t].pc = "unlock",
                      ![t].request_count = n,
                      ![t].result = Some([allowed |-> FALSE, remaining |-> 0,
                                          reset_time |->
                                              IntTrunc(Min(requests[c]) + WindowTicks
                                                          - callers[t].current_time,
                                                       TicksPerSec)])]
                /\ requests' = Put(requests, c,
                                   Append(requests[c], callers[t].current_time))
           ELSE /\ callers' = [callers EXCEPT ![t].pc = "append",
                                              ![t].request_count = n]
                /\ UNCHANGED requests
        /\ UNCHANGED << other_vars, now, lock, results >>

\* request_count = len(self.requests[client_id]), the test of the limit and
\* the rejection branch
IsAllowedCount(t) ==
    LET c == callers[t].client_id
        n == Len(requests[c])
    IN  /\ callers[t].pc = "count"
        /\ callers' = [callers EXCEPT ![t] =
              IF n >= requests_per_window
              THEN [@ EXCEPT !.pc = "unlock",
                             !.request_count = n,
                             !.result = Some([allowed |-> FALSE, remaining |-> 0,
                                              reset_time |->
                                                  IntTrunc(Min(requests[c]) + WindowTicks
                                                              - callers[t].current_time,
                                                           TicksPerSec)])]
              ELSE [@ EXCEPT !.pc = "append", !.request_count = n]]
        /\ UNCHANGED << other_vars, now, requests, lock, results >>

\* the admission branch returning one more than the quota that remains
IsAllowedAppend_before(t) ==
    LET c == callers[t].client_id
    IN  /\ callers[t].pc = "append"
        /\ requests' = Put(requests, c, Append(requests[c], callers[t].current_time))
        /\ callers' = [callers EXCEPT
              ![t].pc = "unlock",
              ![t].result = Some([allowed |-> TRUE,
                                  remaining |-> requests_per_window
                                                  - callers[t].request_count,
                                  reset_time |-> window_seconds])]
        /\ UNCHANGED << other_vars, now, lock, results >>

\* self.requests[client_id].append(current_time) and the admission branch
IsAllowedAppend(t) ==
    LET c == callers[t].client_id
    IN  /\ callers[t].pc = "append"
        /\ requests' = Put(requests, c, Append(requests[c], callers[t].current_time))
        /\ callers' = [callers EXCEPT
              ![t].pc = "unlock",
              ![t].result = Some([allowed |-> TRUE,
                                  remaining |-> requests_per_window
                                                  - callers[t].request_count - 1,
                                  reset_time |-> window_seconds])]
        /\ UNCHANGED << other_vars, now, lock, results >>

\* the end of the with block: the lock is released and the call returns
IsAllowedReturn(t) ==
    /\ callers[t].pc = "unlock"
    /\ lock' = None
    /\ results' = Append(results,
                         [client_id |-> callers[t].client_id,
                          time |-> callers[t].current_time,
                          allowed |-> Val(callers[t].result).allowed,
                          remaining |-> Val(callers[t].result).remaining,
                          reset_time |-> Val(callers[t].result).reset_time])
    /\ callers' = [callers EXCEPT ![t] = IdleCaller]
    /\ UNCHANGED << other_vars, now, requests >>

\* a thread calls get_stats(client_id): one critical section under the lock
GetStats(client_id) ==
    /\ LimiterLockFree(lock)
    /\ requests' = get_stats(requests, client_id, now).requests
    /\ UNCHANGED << other_vars, now, lock, callers, results >>

(***************************************************************************)
(* Specifications                                                          *)
(***************************************************************************)
Start ==
    /\ now = 0
    /\ requests = NoMap
    /\ slot = [s \in Slots |-> IdleSlot]
    /\ received = 0
    /\ admitted = NoMap
    /\ last_reject = NoMap
    /\ auth_failures = NoMap
    /\ collector = NewCollector
    /\ threads = [t \in Threads |-> IdleThread]
    /\ calls = NoMap
    /\ ops = 0
    /\ lock = None
    /\ callers = [t \in Threads |-> IdleCaller]
    /\ results = << >>

\* the exempt_paths arguments the middlewares are constructed with
AuthExemptArgs == { None, Some({ "/ping" }) }

\* The pipeline: requests handled concurrently.
Init ==
    /\ stack = Pipeline
    /\ require_auth \in BOOLEAN
    /\ auth_exempt = ExemptPaths(None)
    /\ rate_exempt = ExemptPaths(None)
    /\ Start

Next ==
    \/ \E s \in Slots, r \in PipelineRequests : Receive(s, r)
    \/ \E s \in Slots : AuthDispatch(s)
    \/ \E s \in Slots : RateLimitDispatch(s)
    \/ \E s \in Slots : RateLimitReject(s)
    \/ \E s \in Slots : Handler(s)
    \/ \E s \in Slots : RateLimitReturn(s)
    \/ Tick

Spec == Init /\ [][Next]_vars

\* The authentication middleware alone around the handler.
InitAuth ==
    /\ stack = << "auth" >>
    /\ require_auth \in BOOLEAN
    /\ auth_exempt \in { ExemptPaths(a) : a \in AuthExemptArgs }
    /\ rate_exempt = ExemptPaths(None)
    /\ Start

NextAuth ==
    \/ \E r \in AuthRequests : Receive(1, r)
    \/ AuthDispatch(1)
    \/ Handler(1)

SpecAuth == InitAuth /\ [][NextAuth]_vars

\* The pipeline with an authentication exemption of its own, used by
\* clients of several identities at one instant.
InitBuckets ==
    /\ stack = Pipeline
    /\ require_auth \in BOOLEAN
    /\ auth_exempt = ExemptPaths(Some({ "/open" }))
    /\ rate_exempt = ExemptPaths(None)
    /\ Start

NextBuckets ==
    \/ \E s \in Slots, r \in BucketRequests : Receive(s, r)
    \/ \E s \in Slots : AuthDispatch(s)
    \/ \E s \in Slots : RateLimitDispatch(s)
    \/ \E s \in Slots : RateLimitReject(s)
    \/ \E s \in Slots : Handler(s)
    \/ \E s \in Slots : RateLimitReturn(s)

SpecBuckets == InitBuckets /\ [][NextBuckets]_vars

\* The pipeline used by clients of two identities while the clock advances.
InitIsolation ==
    /\ stack = Pipeline
    /\ require_auth = TRUE
    /\ auth_exempt = ExemptPaths(Some({ "/open" }))
    /\ rate_exempt = ExemptPaths(None)
    /\ Start

NextIsolation ==
    \/ \E s \in Slots, r \in IsolationRequests : Receive(s, r)
    \/ \E s \in Slots : AuthDispatch(s)
    \/ \E s \in Slots : RateLimitDispatch(s)
    \/ \E s \in Slots : RateLimitReject(s)
    \/ \E s \in Slots : Handler(s)
    \/ \E s \in Slots : RateLimitReturn(s)
    \/ Tick

SpecIsolation == InitIsolation /\ [][NextIsolation]_vars

\* the requests sent to the pipeline with the metrics wrapper
MetricsRequests ==
    [path : { "/metrics", "/ping" },
     authorization : { None },
     x_api_key : { None, Some(K1) },
     api_key : { None },
     client : { Some("1.2.3.4") }]

\* The whole pipeline: the metrics wrapper around authentication, rate
\* limiting and the handler; "/metrics" is served by metrics_endpoint.  The
\* requests are handled within one tick of the clock.
InitMetrics ==
    /\ stack = << "metrics", "auth", "rate" >>
    /\ require_auth = TRUE
    /\ auth_exempt = ExemptPaths(None)
    /\ rate_exempt = ExemptPaths(None)
    /\ Start

NextMetrics ==
    \/ \E s \in Slots, r \in MetricsRequests : Receive(s, r)
    \/ \E s \in Slots : MetricsDispatch(s)
    \/ \E s \in Slots : AuthDispatch(s)
    \/ \E s \in Slots : RateLimitDispatch(s)
    \/ \E s \in Slots : RateLimitReject(s)
    \/ \E s \in Slots : slot[s].req.path # "/metrics" /\ Handler(s)
    \/ \E s \in Slots : slot[s].req.path # "/metrics" /\ HandlerRaises(s)
    \/ \E s \in Slots : metrics_endpoint(s)
    \/ \E s \in Slots : RateLimitReturn(s)
    \/ \E s \in Slots : MetricsReturn(s)
    \/ \E s \in Slots : MetricsFinally(s)
    \/ \E s \in Slots : MetricsRaise(s)

SpecMetrics == InitMetrics /\ [][NextMetrics]_vars

\* The collector alone, called by several threads.
InitCollector ==
    /\ stack = << >>
    /\ require_auth = FALSE
    /\ auth_exempt = ExemptPaths(None)
    /\ rate_exempt = ExemptPaths(None)
    /\ Start

NextCollector ==
    \/ \E t \in Threads, key \in CallKeys, duration \in CallDurations :
          Call(t, key, duration)
    \/ \E t \in Threads : Acquire(t)
    \/ \E t \in Threads : LoadCount(t)
    \/ \E t \in Threads : StoreCount(t)
    \/ \E t \in Threads : AppendDuration(t)
    \/ \E t \in Threads : Release(t)

SpecCollector == InitCollector /\ [][NextCollector]_vars

\* The collector alone, with all its operations: one thread records requests
\* statement by statement while others call the remaining operations.
InitOperations == InitCollector

NextOperations ==
    \/ \E key \in CallKeys, duration \in CallDurations : Call(1, key, duration)
    \/ Acquire(1)
    \/ LoadCount(1)
    \/ StoreCount(1)
    \/ AppendDuration(1)
    \/ Release(1)
    \/ IncRequestsInProgress
    \/ DecRequestsInProgress
    \/ \E success \in BOOLEAN : RecordAuthAttempt(success)
    \/ RecordRateLimitHit
    \/ \E tool_name \in ToolNames, duration \in CallDurations, success \in BOOLEAN :
          RecordToolExecution(tool_name, duration, success)
    \/ ExportPrometheus

SpecOperations == InitOperations /\ [][NextOperations]_vars

\* The rate limiter alone, called by several threads while the clock runs.
InitLimiter ==
    /\ stack = << >>
    /\ require_auth = FALSE
    /\ auth_exempt = ExemptPaths(None)
    /\ rate_exempt = ExemptPaths(None)
    /\ Start

NextLimiter ==
    \/ \E t \in Threads, client_id \in ClientIds : IsAllowedCall(t, client_id)
    \/ \E t \in Threads : IsAllowedAcquire(t)
    \/ \E t \in Threads : IsAllowedCleanup(t)
    \/ \E t \in Threads : IsAllowedCount(t)
    \/ \E t \in Threads : IsAllowedAppend(t)
    \/ \E t \in Threads : IsAllowedReturn(t)
    \/ \E client_id \in ClientIds : GetStats(client_id)
    \/ Tick

SpecLimiter == InitLimiter /\ [][NextLimiter]_vars

(***************************************************************************)
(* Properties                                                              *)
(***************************************************************************)
\* the credential AuthenticationMiddleware extracts from the request in s
Cred(s) == _extract_api_key(slot[s].req)
\* the authentication middleware has decided on the request in s
AuthRan(s) == slot[s].pc \notin { "idle", "auth" }
AuthRejected(s) == slot[s].resp.by = "auth"
ReachedHandler(s) == slot[s].pc = "handler" \/ slot[s].resp.by = "handler"
RateRejected(s) == slot[s].resp.by = "rate"
Evaluated(s) == slot[s].eval # None

\* C1: with authentication required, a request to a non-exempt path reaches
\* the downstream handler only if the credential extracted from it is a key
\* of the credential store; a request with a missing or invalid credential
\* is answered by the gate, which is final: it is never passed downstream.
C1_OnlyValidCredentialsPass ==
    \A s \in Slots :
        (require_auth /\ slot[s].req.path \notin auth_exempt) =>
            LET valid == Cred(s) # None /\ Val(Cred(s)) \in StoredKeys
            IN  /\ ReachedHandler(s) => valid
                /\ (AuthRan(s) /\ ~valid) =>
                      (AuthRejected(s) /\ slot[s].pc = "done")

C1_Witness ==
    \E s \in Slots :
        /\ require_auth
        /\ slot[s].req.path \notin auth_exempt
        /\ slot[s].pc = "done"
        /\ slot[s].resp.by = "handler"
        /\ Cred(s) = Some(K1)

\* C3 as stated: a request presenting a configured key, or the SHA-256 hex
\* digest of a configured key, is not rejected by the gate.
C3_DigestEquivalence ==
    \A s \in Slots :
        (AuthRan(s) /\ Cred(s) # None /\
         (\E k \in StoredKeys : Val(Cred(s)) \in { k, _hash_key(k) })) =>
            ~AuthRejected(s)

\* C7 as stated: a gate rejection is 401 with WWW-Authenticate when no
\* credential was extracted, and 403 when a credential was extracted.
C7_StatusByExtraction ==
    \A s \in Slots :
        AuthRejected(s) =>
            IF Cred(s) = None
            THEN /\ slot[s].resp.status_code = 401
                 /\ "WWW-Authenticate" \in DOMAIN slot[s].resp.headers
            ELSE /\ slot[s].resp.status_code = 403
                 /\ Val(Cred(s)) \notin StoredKeys

\* C7 amended: with authentication required and a non-exempt path, a request
\* whose extracted credential is absent or empty is answered 401 with
\* WWW-Authenticate; one whose credential is non-empty and not a stored key
\* is answered 403; the gate rejects with no other status.
C7_StatusByCredential ==
    \A s \in Slots :
        /\ (require_auth /\ slot[s].req.path \notin auth_exempt /\ AuthRan(s)) =>
              IF Cred(s) = None \/ Cred(s) = Some(Empty)
              THEN /\ AuthRejected(s)
                   /\ slot[s].resp.status_code = 401
                   /\ "WWW-Authenticate" \in DOMAIN slot[s].resp.headers
              ELSE IF Val(Cred(s)) \notin StoredKeys
              THEN AuthRejected(s) /\ slot[s].resp.status_code = 403
              ELSE ~AuthRejected(s)
        /\ AuthRejected(s) => slot[s].resp.status_code \in { 401, 403 }

C7_Witness ==
    \E s \in Slots :
        /\ AuthRejected(s)
        /\ slot[s].resp.status_code = 401
        /\ Cred(s) = Some(Empty)
        /\ slot[s].req.x_api_key = Some(K1)

\* a request carrying a Bearer token b and an X-API-Key x, b # x, on which
\* the gate has decided
BothHeaders(s, b, x) ==
    /\ require_auth /\ slot[s].req.path \notin auth_exempt /\ AuthRan(s)
    /\ slot[s].req.authorization = Bearer(b)
    /\ slot[s].req.x_api_key = Some(x)
    /\ b # x

Tokens == { K1, K2, Bad, Empty, _hash_key(K1) }

\* C8 as stated: the Bearer value is the one validated: an invalid Bearer
\* with a valid X-API-Key is rejected 403, a valid Bearer with an invalid
\* X-API-Key is admitted.
C8_BearerFirst403 ==
    \A s \in Slots : \A b, x \in Tokens :
        BothHeaders(s, b, x) =>
            /\ (b \notin StoredKeys /\ x \in StoredKeys) =>
                  (AuthRejected(s) /\ slot[s].resp.status_code = 403)
            /\ (b \in StoredKeys /\ x \notin StoredKeys) => ~AuthRejected(s)

\* C8 amended: the Bearer value is the only one validated: an invalid Bearer
\* with a valid X-API-Key is rejected (403, or 401 when the Bearer token is
\* empty), a valid Bearer with an invalid X-API-Key is admitted.
C8_BearerFirst ==
    \A s \in Slots : \A b, x \in Tokens :
        BothHeaders(s, b, x) =>
            /\ (b \notin StoredKeys /\ x \in StoredKeys) =>
                  /\ AuthRejected(s)
                  /\ slot[s].resp.status_code = IF b = Empty THEN 401 ELSE 403
            /\ (b \in StoredKeys /\ x \notin StoredKeys) =>
                  /\ ~AuthRejected(s)
                  /\ slot[s].state.api_key_hash = Some(Prefix8(_hash_key(b)))

C8_Witness ==
    \E s \in Slots :
        /\ BothHeaders(s, K1, Bad)
        /\ slot[s].pc = "done"
        /\ slot[s].resp.by = "handler"

\* C2 as stated: for every identity, the admitted requests with timestamps in
\* the closed trailing window [now - window_seconds, now] never exceed
\* requests_per_window.  (`admitted` holds exactly those timestamps.)
C2_ClosedWindow ==
    \A c \in DOMAIN admitted : Len(admitted[c]) <= requests_per_window

\* C2 amended: for every identity and every instant, the admitted requests
\* with timestamps in the half-open trailing window
\* (now - window_seconds, now] never exceed requests_per_window.
C2_HalfOpenWindow ==
    \A c \in DOMAIN admitted :
        Len(Newer(admitted[c], now - WindowTicks)) <= requests_per_window

\* a full window, a rejection, and an admission after the oldest expired
C2_Witness ==
    \E c \in DOMAIN admitted :
        /\ Len(Newer(admitted[c], now - WindowTicks)) = requests_per_window
        /\ Len(admitted[c]) > requests_per_window
        /\ \E s \in Slots : RateRejected(s) /\ Val(slot[s].eval).client_id = c

\* C4 as stated: the gate's rejections are counted by the rate limiter, so a
\* peer never receives more than requests_per_window 401/403 responses
\* within one window: further attempts are answered 429.
C4_FailedAuthIsLimited ==
    \A c \in DOMAIN auth_failures :
        Len(auth_failures[c]) <= requests_per_window

\* C5: a request the gate authenticated is evaluated by the rate limiter
\* under key:<first 8 hex characters of the digest of its credential>, never
\* under ip:<address>.
C5_AuthenticatedBucket ==
    \A s \in Slots :
        (require_auth /\ slot[s].req.path \notin auth_exempt /\ Evaluated(s)) =>
            /\ slot[s].state.authenticated = Some(TRUE)
            /\ Val(slot[s].eval).client_id
                  = << "key", Prefix8(_hash_key(Val(Cred(s)))) >>

C5_Witness ==
    \E s, t \in Slots :
        /\ Evaluated(s)
        /\ Val(slot[s].eval).client_id = << "key", Prefix8(_hash_key(K1)) >>
        /\ slot[s].req.client = Some("1.2.3.4")
        /\ s # t
        /\ AuthRejected(t)

\* C6: a request to a path of the exemption set is never answered 401 or 403
\* by the gate nor 429 by the rate limiter, with any credential or none and
\* after any earlier requests.
C6_ExemptNeverRejected ==
    \A s \in Slots :
        slot[s].req.path \in { "/health", "/metrics" } =>
            /\ ~AuthRejected(s)
            /\ ~RateRejected(s)
            /\ slot[s].resp.status_code \notin { 401, 403, 429 }
            /\ ~Evaluated(s)

\* an exempt request without credential is served while authentication is
\* required and another request is being answered 429
C6_Witness ==
    \E s, t \in Slots :
        /\ require_auth
        /\ slot[s].req.path = "/health"
        /\ Cred(s) = None
        /\ slot[s].pc = "done"
        /\ slot[s].resp.by = "handler"
        /\ RateRejected(t)

\* C9 as stated, taken for a Retry-After of at least one second (where
\* waiting is not void): a client answered 429 with Retry-After r that
\* retries r seconds later or more, with no evaluation of its identity in
\* between, is admitted.
C9_RetryAfterIsEnough ==
    \A s \in Slots :
        (Evaluated(s) /\ Val(slot[s].eval).prev_reject # None) =>
            LET ev == Val(slot[s].eval)
                prev == Val(ev.prev_reject)
            IN  (/\ prev.retry_after >= 1
                 /\ ev.time >= prev.time + prev.retry_after * TicksPerSec)
                    => ev.allowed

\* C10 as stated: the Retry-After of a 429 is at least 1 and at most
\* window_seconds.
C10_RetryAfterRange ==
    \A s \in Slots :
        RateRejected(s) =>
            /\ slot[s].resp.headers["Retry-After"] >= 1
            /\ slot[s].resp.headers["Retry-After"] <= window_seconds

\* the identity the rate limiter evaluates the request in s under
Identity(s) == _get_client_identifier(slot[s].req, slot[s].state)
\* the step is the rate limiter's evaluation of the request in s
Evaluates(s) ==
    /\ slot[s].pc = "rate"
    /\ slot'[s].pc # "rate"
    /\ slot[s].req.path \notin rate_exempt

\* C11: an evaluation for identity a leaves the timestamp sequence of every
\* other identity b, and with it the result of b's next evaluation at any
\* later instant, unchanged; and a is admitted exactly when a's own admitted
\* requests inside the window are fewer than requests_per_window, with what
\* is left of a's own quota as the remaining count, and rejected exactly when
\* they have reached requests_per_window, whatever the other identities have
\* done.
C11_BucketIsolation ==
    [][\A s \in Slots :
          Evaluates(s) =>
              LET a == Identity(s)
                  own == Len(Newer(Get(admitted, a), now - WindowTicks))
                  ev == Val(slot'[s].eval)
              IN  /\ DOMAIN requests' \subseteq (DOMAIN requests) \cup { a }
                  /\ \A b \in (DOMAIN requests) \ { a } :
                        /\ requests'[b] = requests[b]
                        /\ \A t \in now..(now + WindowTicks) :
                              LET before == is_allowed(requests, b, t)
                                  after == is_allowed(requests', b, t)
                              IN  /\ after.allowed = before.allowed
                                  /\ after.remaining = before.remaining
                                  /\ after.reset_time = before.reset_time
                  /\ ev.client_id = a
                  /\ ev.allowed <=> own < requests_per_window
                  /\ (slot'[s].pc = "reject") <=> own >= requests_per_window
                  /\ ev.allowed =>
                        slot'[s].remaining = Some(requests_per_window - own - 1)]_vars

\* after the clock has advanced one identity is exhausted and rejected, and
\* another is then admitted with its whole quota
C11_Witness ==
    \E s, t \in Slots :
        /\ s # t
        /\ Evaluated(s)
        /\ ~Val(slot[s].eval).allowed
        /\ Val(slot[s].eval).time > 0
        /\ Len(Get(requests, Val(slot[s].eval).client_id)) = requests_per_window
        /\ Evaluated(t)
        /\ Val(slot[t].eval).client_id # Val(slot[s].eval).client_id
        /\ Val(slot[t].eval).allowed
        /\ Val(slot[t].eval).time >= Val(slot[s].eval).time
        /\ slot[t].remaining = Some(requests_per_window - 1)

\* the peer address of the request in s, as the rate limiter prints it
PeerAddress(s) == IF slot[s].req.client # None THEN Val(slot[s].req.client) ELSE "unknown"

\* C12: a request carrying the identity digest of a credential is evaluated
\* under key:<first 8 hex characters of the credential's digest>, whatever
\* its peer address; a request carrying no digest is evaluated under
\* ip:<peer address>, ip:unknown when the peer address is unavailable.
C12_IdentityDerivation ==
    \A s \in Slots :
        Evaluated(s) =>
            Val(slot[s].eval).client_id =
                IF slot[s].state.authenticated = Some(TRUE)
                THEN << "key", Prefix8(_hash_key(Val(Cred(s)))) >>
                ELSE << "ip", PeerAddress(s) >>

\* two requests with one credential from different peers share a bucket, and
\* so do two requests without digest from an unavailable peer address
C12_Witness ==
    \E s, t \in Slots :
        /\ s # t
        /\ Evaluated(s) /\ Evaluated(t)
        /\ Cred(s) = Some(K1) /\ Cred(t) = Some(K1)
        /\ slot[s].state.authenticated = Some(TRUE)
        /\ slot[t].state.authenticated = Some(TRUE)
        /\ slot[s].req.client # slot[t].req.client
        /\ Val(slot[s].eval).client_id = Val(slot[t].eval).client_id
        /\ slot[s].remaining = Some(requests_per_window - 1)
        /\ slot[t].remaining = Some(requests_per_window - 2)

\* C13: for a request to a path that is not exempt from rate limiting, the
\* handler is entered only by the step in which the rate limiter admits the
\* request; when it rejects the request, its next step produces a 429 whose
\* Retry-After is the retry_after of that evaluation and whose
\* X-RateLimit-Remaining is 0, and that response is the only one the request
\* gets: it is never replaced and the handler is never entered afterwards.
C13_RejectedNeverHandled ==
    [][\A s \in Slots :
          /\ Evaluates(s) =>
                LET r == is_allowed(requests, Identity(s), now)
                IN  IF r.allowed
                    THEN slot'[s].pc = "handler" /\ slot'[s].resp = NoResponse
                    ELSE /\ slot'[s].pc = "reject"
                         /\ slot'[s].resp = NoResponse
                         /\ Val(slot'[s].eval).reset_time = r.reset_time
          /\ (slot[s].pc = "reject" /\ slot'[s] # slot[s]) =>
                /\ slot'[s].pc # "handler"
                /\ slot'[s].resp.by = "rate"
                /\ slot'[s].resp.status_code = 429
                /\ slot'[s].resp.headers["Retry-After"] = Val(slot[s].eval).reset_time
                /\ slot'[s].resp.headers["X-RateLimit-Remaining"] = 0
          /\ (/\ slot'[s].pc = "handler"
              /\ slot[s].pc # "handler"
              /\ slot'[s].req.path \notin rate_exempt) =>
                (Evaluates(s) /\ is_allowed(requests, Identity(s), now).allowed)
          /\ RateRejected(s) =>
                /\ slot'[s].pc # "handler"
                /\ RateRejected(s)' => slot'[s].resp = slot[s].resp]_vars

\* a request is answered 429 with a Retry-After of one second while another
\* request, admitted by the rate limiter, has been handled
C13_Witness ==
    \E s, t \in Slots :
        /\ RateRejected(s)
        /\ slot[s].pc = "done"
        /\ slot[s].resp.headers["Retry-After"] = 1
        /\ Evaluated(t)
        /\ Val(slot[t].eval).allowed
        /\ slot[t].resp.by = "handler"

\* C14 as stated: every response to a request whose path is not exempt
\* carries X-RateLimit-Limit, X-RateLimit-Remaining and X-RateLimit-Reset,
\* whoever produced it, and a 429 carries Retry-After as well.
C14_HeadersOnEveryResponse ==
    \A s \in Slots :
        (/\ slot[s].pc = "done"
         /\ slot[s].resp # NoResponse
         /\ slot[s].req.path \notin rate_exempt) =>
            /\ { "X-RateLimit-Limit", "X-RateLimit-Remaining", "X-RateLimit-Reset" }
                  \subseteq DOMAIN slot[s].resp.headers
            /\ slot[s].resp.status_code = 429 =>
                  "Retry-After" \in DOMAIN slot[s].resp.headers

\* the request in s is inside the metrics wrapper: MetricsMiddleware.dispatch
\* has called call_next for it and has not yet returned or raised
InWrapper(s) == slot[s].pc \notin { "idle", "metrics", "done" }
\* the step is the one the metrics wrapper takes for the request in s when
\* its call_next has returned or raised
LeavesWrapper(s) ==
    /\ slot[s].pc \in { "ret_metrics", "exc_metrics" }
    /\ slot'[s].pc \in { "finally", "done" }

\* C15 as stated: the step that follows call_next for a counted request,
\* whatever its outcome
\* (401, 403, 429, a downstream response, or an error raised by the handler),
\* makes exactly one record_http_request: with the status of the response,
\* or with a 5xx status when the handler raised.
C15_OneUpdatePerOutcome ==
    [][\A s \in Slots :
          (LeavesWrapper(s) /\ Counted(slot[s].req.path)) =>
              \E status_code \in { 200, 401, 403, 429 } \cup 500..599 :
                  /\ slot[s].exc = None => status_code = slot[s].resp.status_code
                  /\ slot[s].exc # None => status_code >= 500
                  /\ collector'.http_requests_total =
                        Put(collector.http_requests_total,
                            << Method(slot[s].req), slot[s].req.path, status_code >>,
                            GetInt(collector.http_requests_total,
                                   << Method(slot[s].req), slot[s].req.path,
                                      status_code >>) + 1)]_vars

\* C16: in every state the in-progress gauge is the number of counted
\* requests inside the metrics wrapper; so a request that has left it, by a
\* response or by an error, no longer counts.
C16_GaugeCountsInFlight ==
    collector.http_requests_in_progress =
        Cardinality({ s \in Slots : InWrapper(s) /\ Counted(slot[s].req.path) })

\* one request has left the wrapper by an error, another by a response, and
\* the gauge is back to 0; both were inside at the same time before
C16_Witness ==
    \E s, t \in Slots :
        /\ slot[s].pc = "done" /\ slot[s].exc # None
        /\ slot[t].pc = "done" /\ slot[t].resp.by = "handler"
        /\ Counted(slot[s].req.path) /\ Counted(slot[t].req.path)
        /\ collector.http_requests_in_progress = 0
        /\ Val(slot[s].eval).allowed /\ Val(slot[t].eval).allowed
        /\ slot[t].resp.headers["X-RateLimit-Remaining"] = requests_per_window - 2

\* C17: the step the metrics wrapper takes when the handler raised
\* decrements the gauge by one and hands the same error to its caller; no
\* response is produced for that request.
C17_ErrorPropagates ==
    [][\A s \in Slots :
          /\ (slot[s].pc = "exc_metrics" /\ slot'[s] # slot[s]) =>
                /\ slot[s].exc # None
                /\ slot'[s].pc = "done"
                /\ slot'[s].exc = slot[s].exc
                /\ slot'[s].resp = NoResponse
                /\ collector'.http_requests_in_progress =
                      collector.http_requests_in_progress - 1
          /\ (slot[s].exc # None /\ slot'[s].req = slot[s].req /\ slot'[s].pc # "metrics") =>
                slot'[s].exc = slot[s].exc]_vars

\* the handler raised TimeoutError, the caller of the pipeline got it, and
\* the gauge no longer counts the request
C17_Witness ==
    \E s \in Slots :
        /\ slot[s].pc = "done"
        /\ slot[s].exc = Some("TimeoutError")
        /\ slot[s].resp = NoResponse
        /\ Evaluated(s)
        /\ collector.http_requests_in_progress = 0

\* no thread is inside the critical section of the collector: the states an
\* export can observe
Quiescent == \A t \in Threads : threads[t].pc \in { "idle", "lock" }

\* the values exported for the series `name` with label values `labels`
Exported(c, name, labels) ==
    { x.value : x \in { y \in export_prometheus(c) :
                           y.name = name /\ y.labels = labels } }

\* C18: whenever the collector can be exported, for every (method, path,
\* status) the exported request counter and the exported number of duration
\* samples are both the number N of record_http_request calls that returned
\* for it, whatever the interleaving of the calling threads (no series is
\* exported for N = 0).
C18_NoLostUpdates ==
    Quiescent =>
        \A key \in CallKeys :
            LET n == GetInt(calls, key)
                expected == IF n = 0 THEN {} ELSE { n }
            IN  /\ Exported(collector, "http_requests_total", key) = expected
                /\ Exported(collector, "http_request_duration_seconds_count", key)
                      = expected

\* two calls for one tuple have returned while a third thread is waiting
\* for the lock
C18_Witness ==
    /\ Quiescent
    /\ GetInt(calls, << "GET", "/ping", 200 >>) = 2
    /\ \E t \in Threads : /\ threads[t].pc = "lock"
                          /\ threads[t].key = << "GET", "/ping", 200 >>
    /\ Exported(collector, "http_requests_total", << "GET", "/ping", 200 >>) = { 2 }

\* C19 as stated: every evaluation of the gate adds one to the collector's
\* auth-attempt counter, and one to its auth-failure counter when the gate
\* rejects the request with 401 or 403.
C19_AuthCountersFollowGate ==
    [][\A s \in Slots :
          (/\ slot[s].pc = "auth"
           /\ slot'[s].pc # "auth"
           /\ require_auth
           /\ slot[s].req.path \notin auth_exempt) =>
              /\ collector'.auth_attempts_total = collector.auth_attempts_total + 1
              /\ collector'.auth_failures_total =
                    collector.auth_failures_total
                        + (IF AuthRejected(s)' THEN 1 ELSE 0)]_vars

\* C20: no step taken for a request to "/metrics" changes the request
\* counters, the duration samples or the in-progress gauge, and no counter
\* or sample list is ever kept for the path "/metrics".
C20_ScrapeNotCounted ==
    [][/\ \A s \in Slots :
            (slot'[s] # slot[s] /\ slot'[s].req.path = "/metrics") =>
                /\ collector'.http_requests_total = collector.http_requests_total
                /\ collector'.http_request_duration_seconds
                      = collector.http_request_duration_seconds
                /\ collector'.http_requests_in_progress
                      = collector.http_requests_in_progress
       /\ \A key \in DOMAIN collector'.http_requests_total
                     \cup DOMAIN collector'.http_request_duration_seconds :
            key[2] # "/metrics"]_vars

\* two scrapes have been served after a counted request was recorded, and
\* the registers hold that one request only
C20_Witness ==
    \E s, t \in Slots :
        /\ s # t
        /\ slot[s].req.path = "/metrics" /\ slot[t].req.path = "/metrics"
        /\ slot[s].pc = "done" /\ slot[t].pc = "done"
        /\ slot[s].resp.status_code = 200 /\ slot[t].resp.status_code = 200
        /\ Total(collector.http_requests_total) = 1
        /\ collector.http_requests_in_progress = 0

\* the calls of is_allowed for the identity of results[i] that were admitted
\* before it with a timestamp after `cutoff`
AdmittedBefore(i, cutoff) ==
    { j \in 1..(i - 1) : /\ results[j].client_id = results[i].client_id
                         /\ results[j].allowed
                         /\ results[j].time > cutoff }

\* C21: a call is admitted iff the number n of calls admitted before it for
\* its identity with timestamps the purge keeps is below
\* requests_per_window, and then returns remaining = requests_per_window -
\* n - 1 and reset = window_seconds; so the k-th admission of a window
\* returns requests_per_window - k, and remaining is never negative.
C21_AdmitBelowLimit ==
    \A i \in 1..Len(results) :
        LET r == results[i]
            n == Cardinality(AdmittedBefore(i, r.time - WindowTicks))
        IN  /\ r.allowed <=> n < requests_per_window
            /\ r.allowed => /\ r.remaining = requests_per_window - n - 1
                            /\ r.reset_time = window_seconds
            /\ r.remaining >= 0

\* a whole window is admitted from an empty bucket, with remaining counting
\* down to 0, and the next call is rejected
C21_Witness ==
    /\ Len(results) = requests_per_window + 1
    /\ \A k \in 1..requests_per_window :
          /\ results[k].allowed
          /\ results[k].remaining = requests_per_window - k
          /\ results[k].client_id = results[1].client_id
    /\ results[requests_per_window + 1].client_id = results[1].client_id
    /\ ~results[requests_per_window + 1].allowed

\* the caller t has computed its result and still holds the lock
Computed(t) == callers[t].pc = "unlock"
\* the list of the identity of caller t after the purge of its call
Purged(t) ==
    SelectSeq(callers[t].before,
              LAMBDA req_time : req_time > callers[t].current_time - WindowTicks)
\* the rate limiter holding only `list` for client_id
Only(client_id, list) == Put(NoMap, client_id, list)

\* C22: a rejected call returns (false, 0, retry_after) and leaves the
\* identity's list equal to the purged list, so it changes the result of no
\* later evaluation of that identity.
C22_RejectionRecordsNothing ==
    \A t \in Threads :
        (Computed(t) /\ ~Val(callers[t].result).allowed) =>
            LET c == callers[t].client_id
            IN  /\ Len(Purged(t)) >= requests_per_window
                /\ Val(callers[t].result).remaining = 0
                /\ Val(callers[t].result).reset_time =
                      IntTrunc(Min(Purged(t)) + WindowTicks - callers[t].current_time,
                               TicksPerSec)
                /\ requests[c] = Purged(t)
                /\ \A at \in callers[t].current_time..(callers[t].current_time + WindowTicks) :
                      LET skipped == is_allowed(Only(c, callers[t].before), c, at)
                          after == is_allowed(Only(c, requests[c]), c, at)
                      IN  /\ after.allowed = skipped.allowed
                          /\ after.remaining = skipped.remaining
                          /\ after.reset_time = skipped.reset_time

\* a call is rejected with a positive wait while the window holds
\* requests_per_window admitted timestamps, and the list is the one it found
C22_Witness ==
    \E t \in Threads :
        /\ Computed(t)
        /\ ~Val(callers[t].result).allowed
        /\ Val(callers[t].result).reset_time >= 1
        /\ Len(requests[callers[t].client_id]) = requests_per_window
        /\ requests[callers[t].client_id] = callers[t].before

\* the caller t has purged the list and not yet changed it otherwise
AfterPurge(t) == callers[t].pc = "count"

\* C23 as stated: the purge keeps exactly the timestamps of the closed window
\* [now - window_seconds, now]: a timestamp equal to now - window_seconds is
\* retained.
C23_PurgeKeepsEdge ==
    \A t \in Threads :
        AfterPurge(t) =>
            requests[callers[t].client_id] =
                SelectSeq(callers[t].before,
                          LAMBDA req_time :
                              req_time >= callers[t].current_time - WindowTicks)

\* C23 amended: the purge keeps exactly the timestamps newer than now -
\* window_seconds, in their order: a timestamp equal to now - window_seconds
\* is dropped and no longer counts.
C23_PurgeDropsEdge ==
    \A t \in Threads :
        AfterPurge(t) =>
            LET kept == requests[callers[t].client_id]
                cutoff == callers[t].current_time - WindowTicks
            IN  /\ kept = SelectSeq(callers[t].before, LAMBDA req_time : req_time > cutoff)
                /\ \A i \in 1..Len(kept) : kept[i] # cutoff

\* a purge drops a timestamp that is exactly window_seconds old and keeps a
\* newer one
C23_Witness ==
    \E t \in Threads :
        /\ AfterPurge(t)
        /\ \E i \in 1..Len(callers[t].before) :
              callers[t].before[i] = callers[t].current_time - WindowTicks
        /\ Len(requests[callers[t].client_id]) = 1
        /\ Len(callers[t].before) = 2

\* no caller is inside the critical section of the rate limiter
QuiescentLimiter == \A t \in Threads : callers[t].pc \in { "idle", "lock" }

\* the smaller of two numbers
Least(a, b) == IF a <= b THEN a ELSE b

\* C24: whatever the interleaving of the calling threads, every call acts on
\* the identity's list as one step: its result and the list it leaves are
\* those of is_allowed applied to the list it found; of m calls for one
\* identity at one instant with k places free in the window, min(k, m) are
\* admitted, with pairwise distinct remaining values; and every admitted
\* timestamp still in the window is in the list.
C24_AtomicEvaluation ==
    /\ \A t \in Threads :
          Computed(t) =>
              LET c == callers[t].client_id
                  r == is_allowed(Only(c, callers[t].before), c, callers[t].current_time)
              IN  /\ Val(callers[t].result).allowed = r.allowed
                  /\ Val(callers[t].result).remaining = r.remaining
                  /\ Val(callers[t].result).reset_time = r.reset_time
                  /\ requests[c] = r.requests[c]
    /\ \A i \in 1..Len(results) :
          LET same == { j \in 1..i : /\ results[j].client_id = results[i].client_id
                                     /\ results[j].time = results[i].time }
              earlier == { j \in AdmittedBefore(i, results[i].time - WindowTicks) :
                              results[j].time < results[i].time }
              k == requests_per_window - Cardinality(earlier)
          IN  /\ Cardinality({ j \in same : results[j].allowed })
                    = Least(k, Cardinality(same))
              /\ \A j \in same :
                    (j # i /\ results[j].allowed /\ results[i].allowed) =>
                        results[j].remaining # results[i].remaining
    /\ QuiescentLimiter =>
          \A c \in ClientIds :
              Newer(Get(requests, c), now - WindowTicks) =
                  Newer([i \in 1..Cardinality({ j \in 1..Len(results) :
                                                  results[j].client_id = c
                                                  /\ results[j].allowed }) |->
                            results[CHOOSE j \in 1..Len(results) :
                                       /\ results[j].client_id = c
                                       /\ results[j].allowed
                                       /\ Cardinality({ x \in 1..j :
                                                          results[x].client_id = c
                                                          /\ results[x].allowed }) = i].time],
                        now - WindowTicks)

\* three threads have called is_allowed for one identity at one instant with
\* requests_per_window places free: one call was rejected, the others were
\* admitted, while all three were waiting for the lock together
C24_Witness ==
    /\ Len(results) = MaxCalls
    /\ \A i \in 1..Len(results) :
          /\ results[i].client_id = results[1].client_id
          /\ results[i].time = results[1].time
    /\ Cardinality({ i \in 1..Len(results) : results[i].allowed })
          = Least(requests_per_window, MaxCalls)
    /\ QuiescentLimiter

\* the step is the rate limiter passing on the request in s, whose path is
\* in its exempt set
PassesExempt(s) ==
    /\ slot[s].pc = "rate"
    /\ slot'[s].pc # "rate"
    /\ slot[s].req.path \in rate_exempt

\* the identities an evaluation can be made for
Identities ==
    { _get_client_identifier(r, st) :
        r \in MetricsRequests,
        st \in { NoState } \cup
               { [authenticated |-> Some(TRUE), api_key_hash |-> Some(Prefix8(_hash_key(k)))] :
                   k \in StoredKeys } }

\* C25: the rate limiter passes a request to a path of its exempt set
\* straight on: the step evaluates nothing and leaves the map from identities
\* to timestamps as it is (no purge, no append, no new key), so the result
\* of the next evaluation of every identity is what it was.
C25_ExemptTouchesNothing ==
    [][\A s \in Slots :
          PassesExempt(s) =>
              /\ requests' = requests
              /\ DOMAIN requests' = DOMAIN requests
              /\ slot'[s].pc = call_next("rate")
              /\ slot'[s].eval = None
              /\ slot'[s].remaining = None
              /\ slot'[s].resp = NoResponse
              /\ \A c \in Identities :
                    is_allowed(requests', c, now').remaining
                        = is_allowed(requests, c, now).remaining]_vars

\* exempt requests have been served, unevaluated, by a client whose key
\* still has one admission left and whose bucket holds only the timestamp
\* of its one request to a non-exempt path
C25_Witness ==
    \E s \in Slots, t \in Slots :
        /\ s # t
        /\ slot[s].req.path \in rate_exempt
        /\ slot[s].req.x_api_key = Some(K1)
        /\ slot[s].resp.by = "handler"
        /\ ~Evaluated(s)
        /\ received = MaxRequests
        /\ Evaluated(t)
        /\ slot[t].req.x_api_key = Some(K1)
        /\ slot[t].remaining = Some(requests_per_window - 1)
        /\ DOMAIN requests = { Val(slot[t].eval).client_id }
        /\ Len(requests[Val(slot[t].eval).client_id]) = 1

\* the annotation the gate writes for the credential `key`
Annotation(key) ==
    [authenticated |-> Some(TRUE), api_key_hash |-> Some(Prefix8(_hash_key(key)))]

\* the gate authenticates the request in s: the path is not exempt,
\* authentication is required and the extracted credential validates
Authenticates(s) ==
    /\ slot[s].req.path \notin auth_exempt
    /\ require_auth
    /\ Truthy(Cred(s))
    /\ _validate_api_key(Val(Cred(s)))

\* C26: once the gate has decided on a request, the request's state holds
\* authenticated = true and the first 8 hex characters of the credential's
\* digest iff the path is not exempt, authentication is required and the
\* extracted credential validates; after an exempt or a not-required
\* pass-through, a 401 or a 403, and before the gate has run, the state is
\* as the request arrived.
C26_AnnotatedIffAuthenticated ==
    \A s \in Slots :
        /\ (AuthRan(s) /\ Authenticates(s)) =>
              /\ slot[s].state = Annotation(Val(Cred(s)))
              /\ ~AuthRejected(s)
        /\ ~(AuthRan(s) /\ Authenticates(s)) => slot[s].state = NoState

\* with authentication not required, a request presenting a stored key has
\* reached the handler unannotated
C26_Witness ==
    \E s \in Slots :
        /\ ~require_auth
        /\ slot[s].req.path \notin auth_exempt
        /\ Cred(s) = Some(K1)
        /\ ReachedHandler(s)
        /\ slot[s].state = NoState

\* the request in s carries "Authorization: Bearer " with nothing after it
EmptyBearer(s) == slot[s].req.authorization = Bearer(Empty)

\* C29: an Authorization header "Bearer " with an empty token ends the
\* extraction with the empty credential, whatever X-API-Key and API-Key
\* hold: where authentication applies, the request is answered 401 with
\* WWW-Authenticate, it never reaches the handler and it is not annotated.
C29_EmptyBearerIs401 ==
    \A s \in Slots :
        (slot[s].pc # "idle" /\ EmptyBearer(s)) =>
            /\ Cred(s) = Some(Empty)
            /\ (AuthRan(s) /\ require_auth /\ slot[s].req.path \notin auth_exempt) =>
                  /\ AuthRejected(s)
                  /\ slot[s].resp.status_code = 401
                  /\ DOMAIN slot[s].resp.headers = { "WWW-Authenticate" }
                  /\ ~ReachedHandler(s)
                  /\ slot[s].state = NoState

\* a request with an empty Bearer token and a stored key in X-API-Key has
\* been answered 401
C29_Witness ==
    \E s \in Slots :
        /\ EmptyBearer(s)
        /\ slot[s].req.x_api_key = Some(K1)
        /\ slot[s].req.api_key = Some(K2)
        /\ AuthRejected(s)
        /\ slot[s].resp.status_code = 401

\* the gate passes the request in s without authenticating it
Unauthenticated(s) == ~require_auth \/ slot[s].req.path \in auth_exempt

\* C30: when authentication is not required, or the path is exempt from
\* authentication and not from rate limiting, an evaluated request is not
\* annotated, whatever key it presents, and is evaluated in the ip:<address>
\* bucket of its peer: two such requests are counted in one bucket iff they
\* come from one address, whatever their keys.
C30_UnauthenticatedByAddress ==
    \A s \in Slots :
        (Evaluated(s) /\ Unauthenticated(s)) =>
            /\ slot[s].state = NoState
            /\ Val(slot[s].eval).client_id = << "ip", PeerAddress(s) >>
            /\ \A t \in Slots :
                  (Evaluated(t) /\ Unauthenticated(t)) =>
                      (Val(slot[t].eval).client_id = Val(slot[s].eval).client_id
                          <=> PeerAddress(t) = PeerAddress(s))

\* with authentication not required, two requests presenting different
\* stored keys from one address have used up one quota, after a request
\* with one of the keys from another address was counted in a bucket of its
\* own
C30_Witness ==
    \E s, t \in Slots :
        /\ s # t
        /\ ~require_auth
        /\ Evaluated(s) /\ Evaluated(t)
        /\ Cred(s) = Some(K1) /\ Cred(t) = Some(K3)
        /\ slot[s].req.client = slot[t].req.client
        /\ slot[s].state = NoState /\ slot[t].state = NoState
        /\ Val(slot[s].eval).client_id = Val(slot[t].eval).client_id
        /\ slot[s].remaining = Some(requests_per_window - 1)
        /\ slot[t].remaining = Some(requests_per_window - 2)
        /\ \E c \in DOMAIN requests :
              /\ c # Val(slot[s].eval).client_id
              /\ Len(requests[c]) = 1

\* every counter register of d is at least what it is in c
NotBelow(c, d) ==
    /\ \A key \in DOMAIN c.http_requests_total :
          /\ key \in DOMAIN d.http_requests_total
          /\ d.http_requests_total[key] >= c.http_requests_total[key]
    /\ d.auth_attempts_total >= c.auth_attempts_total
    /\ d.auth_failures_total >= c.auth_failures_total
    /\ d.rate_limit_hits_total >= c.rate_limit_hits_total
    /\ \A tool_name \in DOMAIN c.tool_executions_total :
          /\ tool_name \in DOMAIN d.tool_executions_total
          /\ d.tool_executions_total[tool_name] >= c.tool_executions_total[tool_name]
    /\ \A tool_name \in DOMAIN c.tool_failures_total :
          /\ tool_name \in DOMAIN d.tool_failures_total
          /\ d.tool_failures_total[tool_name] >= c.tool_failures_total[tool_name]

\* C27: across every step of every operation of the collector (recording a
\* request statement by statement, the gauge operations, recording an
\* authentication attempt, a rate-limit hit or a tool execution, the
\* export), no counter register decreases and none loses its key: the
\* per-tuple request counts, the authentication attempts and failures, the
\* rate-limit hits, the per-tool executions and failures.
C27_CountersNeverDecrease ==
    [][NotBelow(collector, collector')]_vars

\* a request has been counted and two more operations, which can only be
\* gauge operations or exports, have left every counter where it was
C27_Witness ==
    /\ Total(collector.http_requests_total) = 1
    /\ Total(calls) = 1
    /\ ops = 2
    /\ collector.http_requests_in_progress = 0
    /\ collector.auth_attempts_total = 0
    /\ collector.rate_limit_hits_total = 0
    /\ DOMAIN collector.tool_executions_total = {}

\* the number of threads between the two updates of record_http_request for
\* `key`: the count is written, the sample is not yet appended
BetweenUpdates(key) ==
    Cardinality({ t \in Threads : threads[t].pc = "append" /\ threads[t].key = key })

\* C28 as stated: in every reachable state of the collector the request
\* count stored for each tuple equals the number of duration samples stored
\* for it.
C28_CountEqualsSamples ==
    \A key \in CallKeys :
        GetInt(collector.http_requests_total, key)
            = Len(Get(collector.http_request_duration_seconds, key))

\* C28 amended: in every state in which no thread is between the two updates
\* of record_http_request, hence whenever the lock is free and in every
\* exported snapshot, the request count stored for each tuple equals the
\* number of duration samples stored for it; between the two updates, inside
\* the critical section, the count of the tuple being recorded is one more
\* than its number of samples.
C28_CountEqualsSamplesOutside ==
    \A key \in CallKeys :
        /\ GetInt(collector.http_requests_total, key)
              = Len(Get(collector.http_request_duration_seconds, key))
                  + BetweenUpdates(key)
        /\ BetweenUpdates(key) <= 1
        /\ LockFree(collector) =>
              /\ BetweenUpdates(key) = 0
              /\ Exported(collector, "http_requests_total", key)
                    = Exported(collector, "http_request_duration_seconds_count", key)

\* a thread holding the lock has written the second count of a tuple and
\* not yet appended the second sample
C28_Witness ==
    \E t \in Threads :
        /\ threads[t].pc = "append"
        /\ ~LockFree(collector)
        /\ collector.http_requests_total[threads[t].key] = 2
        /\ Len(collector.http_request_duration_seconds[threads[t].key]) = 1

====
